---- MODULE Spec2Model ----
(***************************************************************************)
(* Sampling state machine of state-conductor (src/src/app.py).             *)
(*                                                                         *)
(* The durable state is two directories of files: timestamp/ holds one     *)
(* file per (network, snapshot, action) with an epoch-second value,        *)
(* state/ holds one JSON file per (network, snapshot) with the captured    *)
(* statistics.  A file is modelled as a set: {} when the file does not     *)
(* exist, {content} when it does.                                          *)
(***************************************************************************)
EXTENDS Integers, Sequences, FiniteSets, TLC

\* ------------------------------------------------------------------ bounds
\* The wall clock advances in ticks; TicksPerSec ticks make one whole second.
MaxTick == 3
TicksPerSec == 2

\* ------------------------------------------------------- program constants
\* The six metric series of the capture, in the order of the queries dict.
MetricTypes == <<"RX_BPS_AVG", "RX_BPS_MAX", "RX_BPS_MIN",
                 "TX_BPS_AVG", "TX_BPS_MAX", "TX_BPS_MIN">>
NumSeries == Len(MetricTypes)

\* Request bodies carry one of these actions ("other" stands for any string
\* that is neither "begin" nor "end").
Actions == {"begin", "end", "other"}

\* (network, snapshot) identifiers the requests are drawn from.
Keys == {<<"a-b", "c">>}

\* -------------------------------------------------------------- file paths
GetTimestampFilepath(network, snapshot, action) ==
    "timestamp/" \o network \o "-" \o snapshot \o "-" \o action \o ".txt"

GetStateStatsFilepath(network, snapshot) ==
    "state/" \o network \o "-" \o snapshot \o "-stats.json"

TimestampPaths == {GetTimestampFilepath(k[1], k[2], a) : k \in Keys, a \in Actions}
StatsPaths == {GetStateStatsFilepath(k[1], k[2]) : k \in Keys}

\* ------------------------------------------------------------------- clock
\* floor(datetime.now(timezone.utc).timestamp()) at clock reading t (in ticks).
FloorNow(t) == t \div TicksPerSec

\* --------------------------------------------------------- timestamp store
ExistTimestampFile(tsf, network, snapshot, action) ==
    tsf[GetTimestampFilepath(network, snapshot, action)] # {}

\* int(floor(float(text))) of the file's content: the file holds the decimal
\* text of a whole number of seconds, which float() and floor() give back
GetTimestamp(tsf, network, snapshot, action) ==
    CHOOSE v \in tsf[GetTimestampFilepath(network, snapshot, action)] : TRUE

SaveTimestamp(tsf, network, snapshot, action, t) ==
    [tsf EXCEPT ![GetTimestampFilepath(network, snapshot, action)] = {FloorNow(t)}]

\* Variant: the comparison of the two markers as "begin >= end".
ExistOngoingSamplingGe(tsf, network, snapshot) ==
    IF ~ExistTimestampFile(tsf, network, snapshot, "begin") THEN FALSE
    ELSE IF ExistTimestampFile(tsf, network, snapshot, "end")
         THEN GetTimestamp(tsf, network, snapshot, "begin")
                >= GetTimestamp(tsf, network, snapshot, "end")
         ELSE TRUE

ExistOngoingSampling(tsf, network, snapshot) ==
    IF ~ExistTimestampFile(tsf, network, snapshot, "begin") THEN FALSE
    ELSE IF ExistTimestampFile(tsf, network, snapshot, "end")
         THEN GetTimestamp(tsf, network, snapshot, "begin")
                > GetTimestamp(tsf, network, snapshot, "end")
         ELSE TRUE

\* ---------------------------------------------------------- metrics gateway
\* An interface name is a sequence of one-character strings; a missing label
\* (dict.get giving None) is the empty name.
Digits == {"0", "1", "2", "3", "4", "5", "6", "7", "8", "9"}

Eth0 == <<"e", "t", "h", "0">>
Eth1 == <<"e", "t", "h", "1">>

\* Row lists a gateway query can answer with (raw_metrics).
RowsA == << [device |-> "leaf1", interface |-> Eth1, value |-> 100],
            [device |-> "leaf1", interface |-> Eth0, value |-> 7] >>
RowsB == << [device |-> "leaf1", interface |-> Eth1, value |-> 50] >>
RowChoices == {<<>>, RowsA, RowsB}

\* What the gateway does during one capture: series number failAt fails
\* (0: none fails), every other series answers with rows.
Gateways ==
    [failAt : {0}, rows : RowChoices] \cup [failAt : 1..NumSeries, rows : {RowsA}]
NoGateway == [failAt |-> 0, rows |-> <<>>]
\* the gateway answers the threaded handler and the aliasing keys are run against
ThreadGateways == {g \in Gateways : g.rows = RowsA /\ g.failAt <= 1}

\* client.query_instant_metrics(query, end)
QueryInstantMetrics(gw, i, time) ==
    IF gw.failAt = i THEN [ok |-> FALSE, rows |-> <<>>]
    ELSE [ok |-> TRUE, rows |-> gw.rows]

\* ----------------------------------------------------------- metric capture
HasPrefix(name, p) == Len(name) >= Len(p) /\ SubSeq(name, 1, Len(p)) = p

\* re.match(r"^<p>\d+", name)
HasPrefixDigits(name, p) ==
    HasPrefix(name, p) /\ Len(name) > Len(p) /\ name[Len(p) + 1] \in Digits

\* any(re.match(pattern, interface) for pattern in ignored_ifname_patterns)
IgnoredIfname(name) ==
    \/ HasPrefixDigits(name, <<"e", "r", "s", "p", "a", "n">>)
    \/ HasPrefixDigits(name, <<"g", "r", "e">>)
    \/ HasPrefixDigits(name, <<"g", "r", "e", "t", "a", "p">>)
    \/ HasPrefixDigits(name, <<"i", "p", "6", "t", "n", "l">>)
    \/ HasPrefix(name, <<"l", "s", "i">>)
    \/ HasPrefixDigits(name, <<"s", "i", "t">>)
    \/ HasPrefixDigits(name, <<"t", "u", "n", "l">>)
    \/ HasPrefix(name, <<"i", "r", "b">>)
    \/ HasPrefix(name, Eth0)

\* A statistics tree is a function from <<device, interface, metric>> to a
\* value; its domain is the set of leaves of the nested dict.
EmptyTree == [t \in {} |-> 0]

\* Variant: a row for a leaf the tree already has is dropped.
InsertRowKeepFirst(metrics, metricType, row) ==
    IF row.interface = <<>> THEN metrics
    ELSE IF IgnoredIfname(row.interface) THEN metrics
    ELSE IF row.device = "" THEN metrics
    ELSE LET leaf == <<row.device, row.interface, metricType>>
         IN [t \in (DOMAIN metrics) \cup {leaf} |->
                IF t \in DOMAIN metrics THEN metrics[t] ELSE row.value]

\* the body of the loop over raw_metrics, for one row
InsertRow(metrics, metricType, row) ==
    IF row.interface = <<>> THEN metrics
    ELSE IF IgnoredIfname(row.interface) THEN metrics
    ELSE IF row.device = "" THEN metrics
    ELSE LET leaf == <<row.device, row.interface, metricType>>
         IN [t \in (DOMAIN metrics) \cup {leaf} |->
                IF t = leaf THEN row.value ELSE metrics[t]]

RECURSIVE InsertRows(_, _, _, _)
InsertRows(metrics, metricType, rows, j) ==
    IF j > Len(rows) THEN metrics
    ELSE InsertRows(InsertRow(metrics, metricType, rows[j]), metricType, rows, j + 1)

\* the loop over queries.items(), from series i on; stops at the first
\* series whose gateway call raises
RECURSIVE FetchLoop(_, _, _, _)
FetchLoop(gw, end, i, metrics) ==
    IF i > NumSeries THEN [ok |-> TRUE, metrics |-> metrics]
    ELSE LET r == QueryInstantMetrics(gw, i, end)
         IN IF ~r.ok THEN [ok |-> FALSE, metrics |-> metrics]
            ELSE FetchLoop(gw, end, i + 1,
                           InsertRows(metrics, MetricTypes[i], r.rows, 1))

\* open() of a marker file that does not exist raises, like a failing
\* gateway call
FetchSampledStateStats(tsf, network, snapshot, gw) ==
    IF ~ExistTimestampFile(tsf, network, snapshot, "begin")
       \/ ~ExistTimestampFile(tsf, network, snapshot, "end")
    THEN [ok |-> FALSE, metrics |-> EmptyTree, duration |-> 0]
    ELSE LET begin == GetTimestamp(tsf, network, snapshot, "begin")
             end == GetTimestamp(tsf, network, snapshot, "end")
             got == FetchLoop(gw, end, 1, EmptyTree)
         IN [ok |-> got.ok, metrics |-> got.metrics, duration |-> end - begin]

\* ----------------------------------------------------------- snapshot store
SaveStateStats(stf, network, snapshot, stateStats) ==
    [stf EXCEPT ![GetStateStatsFilepath(network, snapshot)] = {stateStats}]

\* ------------------------------------------------- sampling state machine
\* Variant: the error check without its test of the action name.
ErrorCheckAnyAction(tsf, network, snapshot, action) ==
    IF action = "begin" /\ ExistOngoingSampling(tsf, network, snapshot) THEN 400
    ELSE IF action = "end" /\ ~ExistOngoingSampling(tsf, network, snapshot) THEN 404
    ELSE 0

\* The "error check" of post_sampling_action: the status of the rejection,
\* or 0 when the request moves into action.
ErrorCheck(tsf, network, snapshot, action) ==
    IF action \notin {"begin", "end"} THEN 400
    ELSE IF action = "begin" /\ ExistOngoingSampling(tsf, network, snapshot) THEN 400
    ELSE IF action = "end" /\ ~ExistOngoingSampling(tsf, network, snapshot) THEN 404
    ELSE 0

\* Variant: the tree built so far is saved also when the capture raises.
EndCaptureSavePartial(tsf, stf, network, snapshot, gw) ==
    LET cap == FetchSampledStateStats(tsf, network, snapshot, gw)
    IN [st |-> SaveStateStats(stf, network, snapshot, cap.metrics),
        status |-> IF cap.ok THEN 200 ELSE 500, wroteStats |-> TRUE,
        duration |-> cap.duration]

\* "if action == end": capture, then save; an exception of the capture
\* leaves the handler before _save_state_stats (status 500).
EndCapture(tsf, stf, network, snapshot, gw) ==
    LET cap == FetchSampledStateStats(tsf, network, snapshot, gw)
    IN IF cap.ok
       THEN [st |-> SaveStateStats(stf, network, snapshot, cap.metrics),
             status |-> 200, wroteStats |-> TRUE, duration |-> cap.duration]
       ELSE [st |-> stf, status |-> 500, wroteStats |-> FALSE,
             duration |-> cap.duration]

\* Variant: the capture is run for every action, not for end alone.
MoveIntoActionAlwaysCapture(tsf, stf, network, snapshot, action, t, gw) ==
    LET ts1 == SaveTimestamp(tsf, network, snapshot, action, t)
        e == EndCapture(ts1, stf, network, snapshot, gw)
    IN [ts |-> ts1, st |-> e.st, status |-> e.status,
        timestamp |-> IF e.status = 200
                      THEN {GetTimestamp(ts1, network, snapshot, action)}
                      ELSE {},
        wroteMarker |-> TRUE, wroteStats |-> e.wroteStats]

\* "move into action": the marker write, the capture of an end, the response.
MoveIntoAction(tsf, stf, network, snapshot, action, t, gw) ==
    LET ts1 == SaveTimestamp(tsf, network, snapshot, action, t)
    IN IF action = "end"
       THEN LET e == EndCapture(ts1, stf, network, snapshot, gw)
            IN [ts |-> ts1, st |-> e.st, status |-> e.status,
                timestamp |-> IF e.status = 200
                              THEN {GetTimestamp(ts1, network, snapshot, action)}
                              ELSE {},
                wroteMarker |-> TRUE, wroteStats |-> e.wroteStats]
       ELSE [ts |-> ts1, st |-> stf, status |-> 200,
             timestamp |-> {GetTimestamp(ts1, network, snapshot, action)},
             wroteMarker |-> TRUE, wroteStats |-> FALSE]

\* The whole handler on one request, run without interruption.
HandleSampling(tsf, stf, network, snapshot, isJson, action, t, gw) ==
    LET rejected == [ts |-> tsf, st |-> stf, status |-> 400, timestamp |-> {},
                     wroteMarker |-> FALSE, wroteStats |-> FALSE]
    IN IF ~isJson THEN rejected
       ELSE LET chk == ErrorCheck(tsf, network, snapshot, action)
            IN IF chk # 0 THEN [rejected EXCEPT !.status = chk]
               ELSE MoveIntoAction(tsf, stf, network, snapshot, action, t, gw)

\* ------------------------------------------------------------------- state
VARIABLES
    ts,       \* timestamp/ directory: path -> {} or {epoch seconds}
    st,       \* state/ directory: path -> {} or {statistics tree}
    now,      \* the wall clock, in ticks
    last,     \* the request handled last and its response
    prev,     \* per key: <<action, status>> of the latest begin/end request
    lastOk,   \* per key: the action of the latest request answered 200
    endOk,    \* per key: whether an end request was ever answered 200
    pc,       \* per worker thread: its position in the handler
    loc,      \* per worker thread: the handler's local variables
    view      \* the read request handled last and its response

vars == <<ts, st, now, last, prev, lastOk, endOk, pc, loc, view>>
history == <<last, prev, lastOk, endOk, view>>
threads == <<pc, loc>>

\* Worker threads of the server (app.run serves each request in a thread).
Procs == {"t1", "t2"}

\* The content of a marker file between open(path, "w") and f.write(...).
Truncated == {-1}

\* The locals of a handler that has not read anything yet.
NoLocals ==
    [key |-> <<"", "">>, action |-> "none", status |-> 0,
     seenBegin |-> {}, begin |-> {}, wrote |-> {},
     capBegin |-> {}, capEnd |-> {}, timestamp |-> {},
     torn |-> FALSE, duration |-> {}, with |-> <<>>]

NoRequest ==
    [key |-> <<"", "">>, json |-> TRUE, action |-> "none", status |-> 0,
     timestamp |-> {}, wroteMarker |-> FALSE, wroteStats |-> FALSE,
     failAt |-> 0, prev |-> <<"none", 0>>, prevOk |-> "none"]

\* no read request handled yet
NoView == [op |-> "none"]

\* empty timestamp/ and state/ directories, no request handled yet
InitStore ==
    /\ ts = [p \in TimestampPaths |-> {}]
    /\ st = [p \in StatsPaths |-> {}]
    /\ now = 0
    /\ last = NoRequest
    /\ prev = [k \in Keys |-> <<"none", 0>>]
    /\ lastOk = [k \in Keys |-> "none"]
    /\ endOk = [k \in Keys |-> FALSE]
    /\ pc = [p \in Procs |-> "idle"]
    /\ loc = [p \in Procs |-> NoLocals]

Init == InitStore /\ view = NoView

\* time passes
Tick ==
    /\ now < MaxTick
    /\ now' = now + 1
    /\ UNCHANGED <<ts, st, history, threads>>

\* POST /state-conductor/environment/<network>/<snapshot>/sampling
PostSamplingAction(k, isJson, action, gw) ==
    LET r == HandleSampling(ts, st, k[1], k[2], isJson, action, now, gw)
        counted == isJson /\ action \in {"begin", "end"}
    IN /\ ts' = r.ts
       /\ st' = r.st
       /\ last' = [key |-> k, json |-> isJson, action |-> action,
                   status |-> r.status, timestamp |-> r.timestamp,
                   wroteMarker |-> r.wroteMarker, wroteStats |-> r.wroteStats,
                   failAt |-> IF r.status \in {200, 500} /\ action = "end"
                              THEN gw.failAt ELSE 0,
                   prev |-> prev[k], prevOk |-> lastOk[k]]
       /\ prev' = IF counted THEN [prev EXCEPT ![k] = <<action, r.status>>] ELSE prev
       /\ lastOk' = IF r.status = 200 THEN [lastOk EXCEPT ![k] = action] ELSE lastOk
       /\ endOk' = IF r.status = 200 /\ action = "end"
                   THEN [endOk EXCEPT ![k] = TRUE] ELSE endOk
       /\ UNCHANGED <<now, threads, view>>

\* the request bodies: not JSON, or JSON carrying an action; the gateway is
\* consulted by end requests only
Request ==
    \E k \in Keys :
        \/ PostSamplingAction(k, FALSE, "none", NoGateway)
        \/ \E action \in Actions \ {"end"} : PostSamplingAction(k, TRUE, action, NoGateway)
        \/ \E gw \in Gateways : PostSamplingAction(k, TRUE, "end", gw)

Next == Tick \/ Request

Spec == Init /\ [][Next]_vars

\* ------------------------------------------- the handler, thread by thread
\* The same handler as a sequence of steps, one per access to the files; the
\* steps of two threads interleave freely (there is no lock in the module).
InFlight(p) == pc[p] \notin {"idle", "done"}

MarkerPath(p, action) == GetTimestampFilepath(loc[p].key[1], loc[p].key[2], action)

Goto(p, label, locals) ==
    /\ pc' = [pc EXCEPT ![p] = label]
    /\ loc' = [loc EXCEPT ![p] = locals]

\* the handler returns with this status
Respond(p, status, locals) == Goto(p, "done", [locals EXCEPT !.status = status])

\* the requests this one overlaps: the action of the first of them, and
\* "more" once there is a second one
Noted(seen, action) == IF seen = <<>> THEN <<action>> ELSE <<seen[1], "more">>

\* lines 103-115: the request arrives; the body and the action name are checked
Receive(p, k, isJson, action) ==
    /\ pc[p] = "idle"
    /\ LET others == {o \in Procs \ {p} : InFlight(o)}
           mine == [NoLocals EXCEPT !.key = k, !.action = action,
                       !.with = IF others = {} THEN <<>>
                                ELSE <<loc[CHOOSE o \in others : TRUE].action>>]
           noted == [o \in Procs |->
                       IF o \in others
                       THEN [loc[o] EXCEPT !.with = Noted(@, action)]
                       ELSE loc[o]]
       IN /\ loc' = [noted EXCEPT ![p] =
                        IF isJson /\ action \in {"begin", "end"}
                        THEN mine ELSE [mine EXCEPT !.status = 400]]
          /\ pc' = [pc EXCEPT ![p] =
                        IF isJson /\ action \in {"begin", "end"}
                        THEN "chk_exist_begin" ELSE "done"]
    /\ UNCHANGED <<ts, st, now, history>>

\* lines 116-121 once _exist_ongoing_sampling has returned ongoing
Decide(p, ongoing, locals) ==
    IF locals.action = "begin" /\ ongoing THEN Respond(p, 400, locals)
    ELSE IF locals.action = "end" /\ ~ongoing THEN Respond(p, 404, locals)
    ELSE Goto(p, "save_open", locals)

\* line 35: _exist_timestamp_file(network, snapshot, "begin")
ChkExistBegin(p) ==
    /\ pc[p] = "chk_exist_begin"
    /\ LET seen == [loc[p] EXCEPT !.seenBegin = ts[MarkerPath(p, "begin")]]
       IN IF ts[MarkerPath(p, "begin")] = {}
          THEN Decide(p, FALSE, seen)
          ELSE Goto(p, "chk_exist_end", seen)
    /\ UNCHANGED <<ts, st, now, history>>

\* line 38: _exist_timestamp_file(network, snapshot, "end")
ChkExistEnd(p) ==
    /\ pc[p] = "chk_exist_end"
    /\ IF ts[MarkerPath(p, "end")] = {}
       THEN Decide(p, TRUE, loc[p])
       ELSE Goto(p, "chk_read_begin", loc[p])
    /\ UNCHANGED <<ts, st, now, history>>

\* line 39: begin = _get_timestamp(...); float("") raises on a truncated file
ChkReadBegin(p) ==
    /\ pc[p] = "chk_read_begin"
    /\ IF ts[MarkerPath(p, "begin")] = Truncated
       THEN Respond(p, 500, [loc[p] EXCEPT !.torn = TRUE])
       ELSE Goto(p, "chk_read_end", [loc[p] EXCEPT !.begin = ts[MarkerPath(p, "begin")]])
    /\ UNCHANGED <<ts, st, now, history>>

\* lines 40-46: end = _get_timestamp(...); begin > end
ChkReadEnd(p) ==
    /\ pc[p] = "chk_read_end"
    /\ IF ts[MarkerPath(p, "end")] = Truncated
       THEN Respond(p, 500, [loc[p] EXCEPT !.torn = TRUE])
       ELSE LET b == CHOOSE v \in loc[p].begin : TRUE
                e == CHOOSE v \in ts[MarkerPath(p, "end")] : TRUE
            IN Decide(p, b > e, [loc[p] EXCEPT !.begin = {}])
    /\ UNCHANGED <<ts, st, now, history>>

\* line 81: open(path, "w") creates or truncates the marker file
SaveOpen(p) ==
    /\ pc[p] = "save_open"
    /\ ts' = [ts EXCEPT ![MarkerPath(p, loc[p].action)] = Truncated]
    /\ Goto(p, "save_write", loc[p])
    /\ UNCHANGED <<st, now, history>>

\* line 83: f.write(str(floor(now))), and the file is closed
SaveWrite(p) ==
    /\ pc[p] = "save_write"
    /\ ts' = [ts EXCEPT ![MarkerPath(p, loc[p].action)] = {FloorNow(now)}]
    /\ Goto(p, IF loc[p].action = "end" THEN "cap_read_begin" ELSE "resp_read",
            [loc[p] EXCEPT !.wrote = {FloorNow(now)}])
    /\ UNCHANGED <<st, now, history>>

\* line 258: begin = _get_timestamp(network, snapshot, "begin")
CapReadBegin(p) ==
    /\ pc[p] = "cap_read_begin"
    /\ IF ts[MarkerPath(p, "begin")] = Truncated
       THEN Respond(p, 500, [loc[p] EXCEPT !.torn = TRUE])
       ELSE Goto(p, "cap_read_end",
                 [loc[p] EXCEPT !.capBegin = ts[MarkerPath(p, "begin")],
                                !.torn = @ \/ ts[MarkerPath(p, "begin")] # loc[p].seenBegin,
                                !.seenBegin = {}])
    /\ UNCHANGED <<ts, st, now, history>>

\* line 259: end = _get_timestamp(network, snapshot, "end")
CapReadEnd(p) ==
    /\ pc[p] = "cap_read_end"
    /\ IF ts[MarkerPath(p, "end")] = Truncated
       THEN Respond(p, 500, [loc[p] EXCEPT !.torn = TRUE])
       ELSE LET b == CHOOSE v \in loc[p].capBegin : TRUE
                e == CHOOSE v \in ts[MarkerPath(p, "end")] : TRUE
            IN Goto(p, "cap_query",
                    [loc[p] EXCEPT !.capEnd = {e}, !.capBegin = {},
                                   !.duration = {e - b},
                                   !.torn = @ \/ {e} # loc[p].wrote])
    /\ UNCHANGED <<ts, st, now, history>>

\* lines 288-307 and 130: the six gateway queries (they touch no file), then
\* _save_state_stats unless a query raised
CapQuerySave(p, gw) ==
    /\ pc[p] = "cap_query"
    /\ LET end == CHOOSE v \in loc[p].capEnd : TRUE
           got == FetchLoop(gw, end, 1, EmptyTree)
       IN IF got.ok
          THEN /\ st' = SaveStateStats(st, loc[p].key[1], loc[p].key[2], got.metrics)
               /\ Goto(p, "resp_read", [loc[p] EXCEPT !.capEnd = {}])
          ELSE /\ st' = st
               /\ Respond(p, 500, [loc[p] EXCEPT !.capEnd = {}, !.wrote = {}])
    /\ UNCHANGED <<ts, now, history>>

\* lines 133-135: response["timestamp"] = _get_timestamp(network, snapshot, action)
RespRead(p) ==
    /\ pc[p] = "resp_read"
    /\ IF ts[MarkerPath(p, loc[p].action)] = Truncated
       THEN Respond(p, 500, [loc[p] EXCEPT !.torn = TRUE])
       ELSE Respond(p, 200,
                    [loc[p] EXCEPT !.timestamp = ts[MarkerPath(p, loc[p].action)],
                                   !.torn = @ \/ ts[MarkerPath(p, loc[p].action)] # loc[p].wrote,
                                   !.wrote = {}])
    /\ UNCHANGED <<ts, st, now, history>>

\* the response is sent; the thread takes the next request
Return(p) ==
    /\ pc[p] = "done"
    /\ Goto(p, "idle", NoLocals)
    /\ UNCHANGED <<ts, st, now, history>>

Arrive ==
    \E p \in Procs, k \in Keys :
        \/ Receive(p, k, FALSE, "none")
        \/ \E action \in Actions : Receive(p, k, TRUE, action)

Check ==
    \E p \in Procs :
        ChkExistBegin(p) \/ ChkExistEnd(p) \/ ChkReadBegin(p) \/ ChkReadEnd(p)

Save == \E p \in Procs : SaveOpen(p) \/ SaveWrite(p)

Capture ==
    \E p \in Procs :
        CapReadBegin(p) \/ CapReadEnd(p) \/ \E gw \in ThreadGateways : CapQuerySave(p, gw)

Reply == \E p \in Procs : RespRead(p) \/ Return(p)

NextThreads == Tick \/ Arrive \/ Check \/ Save \/ Capture \/ Reply

SpecThreads == Init /\ [][NextThreads]_vars

\* ---------------------------------------------------------- read requests
\* _load_state_stats: None ({}) when the file does not exist, else the tree
\* the JSON text encodes (json.dump and json.load of a nested dict with
\* string keys and float leaves give the same nested dict back)
LoadStateStats(stf, network, snapshot) ==
    stf[GetStateStatsFilepath(network, snapshot)]

\* "not state_stats": None is false, and so is the empty dict
NotStats(stats) == stats = {} \/ stats = {EmptyTree}

\* Variant: only a missing file counts as "not found".
StateResponseIfStored(stats) ==
    IF stats = {} THEN [status |-> 404, state |-> {}]
    ELSE [status |-> 200, state |-> stats]

\* get_sampled_state_stats, on what _load_state_stats returned
StateResponse(stats) ==
    IF NotStats(stats) THEN [status |-> 404, state |-> {}]
    ELSE [status |-> 200, state |-> stats]

\* ------------------------------------------------------------- diff engine
Devices(tree) == {t[1] : t \in DOMAIN tree}
Interfaces(tree, d) == {t[2] : t \in {u \in DOMAIN tree : u[1] = d}}
Metrics(tree, d, i) == {t[3] : t \in {u \in DOMAIN tree : u[1] = d /\ u[2] = i}}

\* a / b of two floats, kept as the exact fraction <<a, b>>
Quot(a, b) == <<a, b>>

\* request.args.get(name): {} when the parameter is absent; "if target" is
\* false for an absent and for an empty parameter
IsTarget(target, name, empty) == target = {} \/ target = {empty} \/ target = {name}

\* Variant: the ratio is computed whatever the source value.
DiffEntryAlwaysRatio(srcValue, dstValue, scale) ==
    IF srcValue = {} THEN {}
    ELSE LET src == CHOOSE v \in srcValue : TRUE
         IN {[counter |-> {Quot(dstValue - src, scale)},
              ratio |-> {Quot(dstValue, src)}]}

\* Variant: a metric missing in the source gets an object with null fields.
DiffEntryNullFields(srcValue, dstValue, scale) ==
    IF srcValue = {} THEN {[counter |-> {}, ratio |-> {}]}
    ELSE LET src == CHOOSE v \in srcValue : TRUE
         IN {[counter |-> {Quot(dstValue - src, scale)},
              ratio |-> IF src = 0 THEN {} ELSE {Quot(dstValue, src)}]}

\* lines 228-242: the diff entry of one metric; srcValue is {} when
\* source_stats[device][interface].get(metric_name) is None, {} stands for
\* None in the result
DiffEntry(srcValue, dstValue, scale) ==
    IF srcValue = {} THEN {}
    ELSE LET src == CHOOSE v \in srcValue : TRUE
         IN {[counter |-> {Quot(dstValue - src, scale)},
              ratio |-> IF src = 0 THEN {} ELSE {Quot(dstValue, src)}]}

\* the devices the outer loop does not skip (lines 204-211)
DiffDeviceCandidates(source, dest, node) ==
    {d \in Devices(dest) : IsTarget(node, d, "") /\ d \in Devices(source)}

\* the (device, interface) pairs neither loop skips (lines 204-220)
DiffPairs(source, dest, node, iface) ==
    {p \in DiffDeviceCandidates(source, dest, node) \X
           UNION {Interfaces(dest, d) : d \in Devices(dest)} :
        /\ p[2] \in Interfaces(dest, p[1])
        /\ IsTarget(iface, p[2], <<>>)
        /\ p[2] \in Interfaces(source, p[1])}

\* Variant: diff[dest_device] is created before the loop over interfaces.
DiffDevicesEager(source, dest, node, iface) ==
    DiffDeviceCandidates(source, dest, node)

\* lines 222-223: diff[dest_device] is created with its first interface
DiffDevices(source, dest, node, iface) ==
    {p[1] : p \in DiffPairs(source, dest, node, iface)}

ValueAt(tree, leaf) == IF leaf \in DOMAIN tree THEN {tree[leaf]} ELSE {}

\* lines 204-242: the diff dict, as its device keys and, per (device,
\* interface), the entries of the destination's metrics
StateStatsDiff(source, dest, node, iface, scale) ==
    [devices |-> DiffDevices(source, dest, node, iface),
     entries |-> [p \in DiffPairs(source, dest, node, iface) |->
                    [mt \in Metrics(dest, p[1], p[2]) |->
                        DiffEntry(ValueAt(source, <<p[1], p[2], mt>>),
                                  dest[<<p[1], p[2], mt>>], scale)]]]

\* the divisions of line 236 raise ZeroDivisionError when the scale is 0.0
DividesByZero(source, dest, node, iface, scale) ==
    /\ scale = 0
    /\ \E p \in DiffPairs(source, dest, node, iface) :
          \E mt \in Metrics(dest, p[1], p[2]) : <<p[1], p[2], mt>> \in DOMAIN source

\* What the usecase-parameter service answers: a traffic scale, parameters
\* without the scale (KeyError, line 198), or no answer (requests.get raises).
UsecaseAnswers ==
    {[ok |-> TRUE, scale |-> {1}], [ok |-> TRUE, scale |-> {2}],
     [ok |-> TRUE, scale |-> {0}], [ok |-> TRUE, scale |-> {}],
     [ok |-> FALSE, scale |-> {}]}

\* get_state_stats_diff, on what _load_state_stats returned for the two
\* snapshots and what the usecase-parameter service answers
DiffResponse(sourceStats, destStats, usecase, node, iface) ==
    IF NotStats(sourceStats) THEN [status |-> 404, diff |-> {}]
    ELSE IF NotStats(destStats) THEN [status |-> 404, diff |-> {}]
    ELSE IF ~usecase.ok \/ usecase.scale = {} THEN [status |-> 500, diff |-> {}]
    ELSE LET source == CHOOSE t \in sourceStats : TRUE
             dest == CHOOSE t \in destStats : TRUE
             scale == CHOOSE v \in usecase.scale : TRUE
         IN IF DividesByZero(source, dest, node, iface, scale)
            THEN [status |-> 500, diff |-> {}]
            ELSE [status |-> 200,
                  diff |-> {StateStatsDiff(source, dest, node, iface, scale)}]

\* --------------------------------------- the service with its read requests
\* Variant: a read that finds no file stores an empty tree.
GetSampledStateStatsStoring(k) ==
    LET stats == LoadStateStats(st, k[1], k[2])
        r == StateResponse(stats)
    IN /\ view' = [op |-> "state", key |-> k, status |-> r.status,
                   state |-> r.state, stored |-> stats, captured |-> endOk[k]]
       /\ st' = IF stats = {} THEN SaveStateStats(st, k[1], k[2], EmptyTree) ELSE st
       /\ UNCHANGED <<ts, now, last, prev, lastOk, endOk, threads>>

\* GET .../<network>/<snapshot>/state
GetSampledStateStats(k) ==
    LET stats == LoadStateStats(st, k[1], k[2])
        r == StateResponse(stats)
    IN /\ view' = [op |-> "state", key |-> k, status |-> r.status,
                   state |-> r.state, stored |-> stats, captured |-> endOk[k]]
       /\ UNCHANGED <<ts, st, now, last, prev, lastOk, endOk, threads>>

\* GET .../<usecase>/<network>/snapshot_diff/<source>/<destination>
GetStateStatsDiff(network, source, destination, usecase, node, iface) ==
    LET sourceStats == LoadStateStats(st, network, source)
        destStats == LoadStateStats(st, network, destination)
        r == DiffResponse(sourceStats, destStats, usecase, node, iface)
    IN /\ view' = [op |-> "diff", status |-> r.status, diff |-> r.diff,
                   sourceStored |-> sourceStats, destStored |-> destStats,
                   captured |-> endOk[<<network, source>>] /\ endOk[<<network, destination>>],
                   usecase |-> usecase]
       /\ UNCHANGED <<ts, st, now, last, prev, lastOk, endOk, threads>>

ReadState == \E k \in Keys : GetSampledStateStats(k)

ReadDiff ==
    \E k \in Keys : \E usecase \in UsecaseAnswers :
        GetStateStatsDiff(k[1], k[2], k[2], usecase, {}, {})

NextApi == Tick \/ Request \/ ReadState \/ ReadDiff

SpecApi == Init /\ [][NextApi]_vars

\* ------------------------------------------- the capture on arbitrary rows
MaxRows == 3
Gre1 == <<"g", "r", "e", "1">>
Gre == <<"g", "r", "e">>

\* the rows (label "container_label_clab_node_name", label "interface",
\* value) a gateway answer is drawn from; "" and <<>> are a missing label
CaptureRows ==
    [device : {"leaf1", ""}, interface : {Eth1, Eth0, <<>>}, value : {1, 2}]
        \cup [device : {"leaf1"}, interface : {Gre1, Gre}, value : {1}]

RowLists == UNION {[1..n -> CaptureRows] : n \in 0..MaxRows}

InitCapture ==
    /\ InitStore
    /\ view \in {[op |-> "rows", rows |-> r] : r \in RowLists}

\* _fetch_sampled_state_stats from line 288 on, every query answered with
\* the drawn rows
CaptureRowList ==
    /\ view.op = "rows"
    /\ view' = [op |-> "tree", rows |-> view.rows,
                metrics |-> FetchLoop([failAt |-> 0, rows |-> view.rows],
                                      0, 1, EmptyTree).metrics]
    /\ UNCHANGED <<ts, st, now, last, prev, lastOk, endOk, threads>>

NextCapture == CaptureRowList

SpecCapture == InitCapture /\ [][NextCapture]_vars

\* ------------------------------------------ the diff on arbitrary snapshots
Eth2 == <<"e", "t", "h", "2">>

\* the leaves and values the two stored trees are drawn from
DiffLeaves ==
    {<<"leaf1", Eth1, "RX_BPS_AVG">>, <<"leaf1", Eth1, "TX_BPS_AVG">>,
     <<"leaf1", Eth2, "RX_BPS_AVG">>, <<"leaf2", Eth1, "RX_BPS_AVG">>}
SourceValues == {0, 50}
DestValues == {100}

TreesOver(values) == UNION {[leaves -> values] : leaves \in SUBSET DiffLeaves}

\* what _load_state_stats can return: None or a stored tree
StoredOver(values) == {{}} \cup {{t} : t \in TreesOver(values)}

NodeArgs == {{}, {""}, {"leaf1"}}
InterfaceArgs == {{}, {Eth1}}

\* the snapshots of a diff request: the source is a sampled snapshot or the
\* as-is baseline, both being names of stored trees to the handler
DiffNetwork == "a-b"
SourceSnapshots == {"c", "original_asis"}
DestinationSnapshot == "d"

InitDiff ==
    /\ InitStore
    /\ view \in [op : {"args"}, source : SourceSnapshots,
                 sourceStats : StoredOver(SourceValues),
                 destStats : StoredOver(DestValues), usecase : UsecaseAnswers,
                 node : NodeArgs, iface : InterfaceArgs]

\* get_state_stats_diff on the drawn snapshots, parameters and scale
ComputeDiff ==
    /\ view.op = "args"
    /\ LET sourcePath == GetStateStatsFilepath(DiffNetwork, view.source)
           destPath == GetStateStatsFilepath(DiffNetwork, DestinationSnapshot)
           stf == [p \in {sourcePath, destPath} |->
                      IF p = sourcePath THEN view.sourceStats ELSE view.destStats]
           r == DiffResponse(LoadStateStats(stf, DiffNetwork, view.source),
                             LoadStateStats(stf, DiffNetwork, DestinationSnapshot),
                             view.usecase, view.node, view.iface)
       IN view' = [op |-> "diff", source |-> view.source,
                   sourceStats |-> view.sourceStats,
                   destStats |-> view.destStats, usecase |-> view.usecase,
                   node |-> view.node, iface |-> view.iface,
                   status |-> r.status, diff |-> r.diff]
    /\ UNCHANGED <<ts, st, now, last, prev, lastOk, endOk, threads>>

NextDiff == ComputeDiff

SpecDiff == InitDiff /\ [][NextDiff]_vars

\* ------------------------------------------- identifiers that contain "-"
\* Two (network, snapshot) pairs whose identifiers differ and whose file
\* names are the same text.
AliasKeys == {<<"a-b", "c">>, <<"a", "b-c">>}

InitKeys ==
    /\ ts = [p \in {GetTimestampFilepath(k[1], k[2], a) : k \in AliasKeys, a \in Actions}
                |-> {}]
    /\ st = [p \in {GetStateStatsFilepath(k[1], k[2]) : k \in AliasKeys} |-> {}]
    /\ now = 0
    /\ last = NoRequest
    /\ prev = [k \in AliasKeys |-> <<"none", 0>>]
    /\ lastOk = [k \in AliasKeys |-> "none"]
    /\ endOk = [k \in AliasKeys |-> FALSE]
    /\ pc = [p \in Procs |-> "idle"]
    /\ loc = [p \in Procs |-> NoLocals]
    /\ view = NoView

RequestKeys ==
    \E k \in AliasKeys :
        \/ PostSamplingAction(k, FALSE, "none", NoGateway)
        \/ \E action \in Actions \ {"end"} : PostSamplingAction(k, TRUE, action, NoGateway)
        \/ \E gw \in ThreadGateways : PostSamplingAction(k, TRUE, "end", gw)

NextKeys == Tick \/ RequestKeys

SpecKeys == InitKeys /\ [][NextKeys]_vars

\* ================================================================== claims
BeginPath(k) == GetTimestampFilepath(k[1], k[2], "begin")
EndPath(k) == GetTimestampFilepath(k[1], k[2], "end")
StatsPath(k) == GetStateStatsFilepath(k[1], k[2])

\* C1: a begin request that follows a begin request on the same key, with no
\* end request on the key in between, is answered 400 and writes no marker.
C1_SecondBeginConflicts ==
    (last.action = "begin" /\ last.prev[1] = "begin")
        => (last.status = 400 /\ ~last.wroteMarker)

\* The key was Idle before the request handled last: nothing ever succeeded on
\* it, or an end succeeded last and every begin/end request since was an end.
IdleBefore(l) ==
    \/ l.prevOk = "none"
    \/ l.prevOk = "end" /\ l.prev[1] = "end"

\* C2: an end request on an Idle key is answered 404 and writes neither an
\* end marker nor a statistics tree.
C2_EndOnIdleNotFound ==
    [][(last'.action = "end" /\ IdleBefore(last'))
          => (last'.status = 404 /\ ts' = ts /\ st' = st)]_vars

\* an end is rejected right after an end that succeeded in the second of its begin
C2_Witness ==
    /\ last.action = "end" /\ last.status = 404
    /\ last.prev = <<"end", 200>>
    /\ ts[BeginPath(last.key)] = ts[EndPath(last.key)]

\* C3: an end request issued right after a begin request that succeeded on
\* the key is accepted (the key is Open after every successful begin).
C3_EndAfterBeginAccepted ==
    (last.action = "end" /\ last.prev = <<"begin", 200>>) => last.status # 404

\* C4: a request whose action is neither begin nor end is answered 400, and
\* every rejected request (400 or 404) leaves all markers and trees unchanged.
C4_RejectedChangesNothing ==
    [][/\ (last'.status # 0 /\ last'.action \notin {"begin", "end"})
            => last'.status = 400
       /\ (last'.status \in {400, 404}) => (ts' = ts /\ st' = st)]_vars

\* an unknown action is rejected on a key that holds a marker and a tree
C4_Witness ==
    /\ last.action = "other" /\ last.status = 400
    /\ ts[BeginPath(last.key)] # {}
    /\ st[StatsPath(last.key)] # {}

\* A stored tree comes with a successful end and with both markers.
TreeOnlyAfterEnd ==
    \A k \in Keys :
        st[StatsPath(k)] # {}
            => (endOk[k] /\ ts[BeginPath(k)] # {} /\ ts[EndPath(k)] # {})

\* C5: a statistics tree is stored for a key only after an end request on it
\* succeeded, it is accompanied by a begin and an end marker, and a begin
\* request never creates or changes a tree.
C5_TreeOnlyAfterSuccessfulEnd ==
    [][/\ TreeOnlyAfterEnd /\ TreeOnlyAfterEnd'
       /\ (last'.action = "begin") => st' = st]_vars

\* a begin succeeded on a key that holds the tree of an earlier cycle
C5_Witness ==
    /\ last.action = "begin" /\ last.status = 200
    /\ st[StatsPath(last.key)] # {}

\* C6: a failed end request has not written its end marker without storing
\* its statistics tree, nor a tree without the marker.
C6_FailedEndNoPartialEffect ==
    (last.action = "end" /\ last.status = 500)
        => (last.wroteMarker <=> last.wroteStats)

\* C7: after an end request whose capture failed, an end request on the same
\* key with no begin in between is accepted.
C7_EndRetryAccepted ==
    (last.action = "end" /\ last.prev = <<"end", 500>>) => last.status # 404

\* C8: an end request in which the gateway fails for one series writes no
\* statistics tree; the stored tree stays as it was.
C8_FailedCaptureKeepsTree ==
    [][(last'.status = 500) => st' = st]_vars

\* the third series fails while the tree of an earlier end is stored
C8_Witness ==
    /\ last.action = "end" /\ last.status = 500 /\ last.failAt > 2
    /\ st[StatsPath(last.key)] # {}

\* Threads p and q have each answered one request on the same key, and the
\* two requests overlapped each other and no third request.
HandledConcurrently(p, actionP, q, actionQ) ==
    /\ p # q
    /\ pc[p] = "done" /\ pc[q] = "done"
    /\ loc[p].key = loc[q].key
    /\ loc[p].action = actionP /\ loc[q].action = actionQ
    /\ loc[p].with = <<actionQ>> /\ loc[q].with = <<actionP>>

\* C9: of two begin requests on one key that are handled concurrently, at
\* most one is answered 200.
C9_OneConcurrentBeginSucceeds ==
    \A p, q \in Procs :
        HandledConcurrently(p, "begin", q, "begin")
            => ~(loc[p].status = 200 /\ loc[q].status = 200)

\* C10: when a begin and an end request on one key are handled concurrently,
\* no read of either handler (the capture's marker reads, the response's
\* timestamp read, the reads of the open check) sees a marker in a state
\* that the other handler produced after this handler's own check or write;
\* torn records such a read.
C10_BeginEndLinearized ==
    \A p, q \in Procs :
        HandledConcurrently(p, "begin", q, "end")
            => (~loc[p].torn /\ ~loc[q].torn)

\* C11: a sampling request on one (network, snapshot) pair leaves the begin
\* marker, the end marker and the statistics tree of every other pair
\* unchanged, also for pairs whose identifiers contain "-".
C11_KeysIndependent ==
    [][\A k \in AliasKeys :
          (last'.key # k)
              => /\ ts'[BeginPath(k)] = ts[BeginPath(k)]
                 /\ ts'[EndPath(k)] = ts[EndPath(k)]
                 /\ st'[StatsPath(k)] = st[StatsPath(k)]]_vars

\* C12: once an end request on a key was answered 200, GET state on the key
\* answers 200 with exactly the stored tree, the empty tree included; it
\* answers 404 only for a key no capture was ever stored for.
C12_StateRoundTrip ==
    (view.op = "state")
        => /\ view.captured => (view.status = 200 /\ view.state = view.stored)
           /\ (view.status = 404) => ~view.captured

\* C13: the tree of a capture has a leaf [device][interface][metric] exactly
\* for the rows with a non-empty interface label, a non-empty device label
\* and an interface name no denylist pattern matches; no denylisted name is a
\* key of the tree; of the rows for one leaf the last one gives the value.
RowKept(row) ==
    row.interface # <<>> /\ row.device # "" /\ ~IgnoredIfname(row.interface)

LastRowFor(rows, device, interface) ==
    CHOOSE j \in 1..Len(rows) :
        /\ RowKept(rows[j]) /\ rows[j].device = device /\ rows[j].interface = interface
        /\ \A h \in (j + 1)..Len(rows) :
              ~(RowKept(rows[h]) /\ rows[h].device = device /\ rows[h].interface = interface)

C13_TreeOfKeptRows ==
    (view.op = "tree") =>
        LET rows == view.rows
            tree == view.metrics
        IN /\ DOMAIN tree =
                {<<rows[j].device, rows[j].interface, MetricTypes[i]>> :
                    j \in {h \in 1..Len(rows) : RowKept(rows[h])}, i \in 1..NumSeries}
           /\ \A t \in DOMAIN tree :
                 /\ ~IgnoredIfname(t[2])
                 /\ tree[t] = rows[LastRowFor(rows, t[1], t[2])].value

C13_Witness ==
    /\ view.op = "tree"
    /\ \E j \in 1..Len(view.rows) : IgnoredIfname(view.rows[j].interface)
    /\ \E j, h \in 1..Len(view.rows) :
          /\ j < h /\ RowKept(view.rows[j]) /\ RowKept(view.rows[h])
          /\ view.rows[j].device = view.rows[h].device
          /\ view.rows[j].interface = view.rows[h].interface
          /\ view.rows[j].value # view.rows[h].value
          /\ view.metrics[<<view.rows[h].device, view.rows[h].interface, "RX_BPS_AVG">>]
                = view.rows[h].value

\* the inputs and the result of a diff request answered 200
DiffSource == CHOOSE t \in view.sourceStats : TRUE
DiffDest == CHOOSE t \in view.destStats : TRUE
DiffScale == CHOOSE v \in view.usecase.scale : TRUE
DiffResult == CHOOSE d \in view.diff : TRUE

\* the fraction q has the value a / b
IsQuotient(q, a, b) == q[2] # 0 /\ b # 0 /\ q[1] * b = a * q[2]

\* C14: in the scaled diff with a traffic scale > 0, every metric present in
\* both trees has counter = (destination - source) / scale, and ratio =
\* destination / source when source is not 0, null when source is 0; the
\* request is answered (no division error) and no quotient has denominator 0.
C14_CounterAndRatio ==
    (/\ view.op = "diff"
     /\ ~NotStats(view.sourceStats) /\ ~NotStats(view.destStats)
     /\ view.usecase.ok /\ view.usecase.scale # {} /\ DiffScale > 0)
        => /\ view.status = 200
           /\ \A p \in DOMAIN DiffResult.entries :
                 \A mt \in DOMAIN DiffResult.entries[p] :
                    LET leaf == <<p[1], p[2], mt>>
                    IN (leaf \in DOMAIN DiffSource) =>
                          \E e \in DiffResult.entries[p][mt] :
                             /\ \E c \in e.counter :
                                   IsQuotient(c, DiffDest[leaf] - DiffSource[leaf], DiffScale)
                             /\ IF DiffSource[leaf] = 0 THEN e.ratio = {}
                                ELSE \E r \in e.ratio :
                                        IsQuotient(r, DiffDest[leaf], DiffSource[leaf])

C14_Witness ==
    /\ view.op = "diff" /\ view.status = 200 /\ DiffScale = 2
    /\ \E p \in DOMAIN DiffResult.entries :
          \E mt, mu \in DOMAIN DiffResult.entries[p] :
             /\ <<p[1], p[2], mt>> \in DOMAIN DiffSource
             /\ <<p[1], p[2], mu>> \in DOMAIN DiffSource
             /\ DiffSource[<<p[1], p[2], mt>>] = 0
             /\ DiffSource[<<p[1], p[2], mu>>] = 50
             /\ DiffResult.entries[p][mt] = {[counter |-> {<<100, 2>>}, ratio |-> {}]}
             /\ DiffResult.entries[p][mu] = {[counter |-> {<<50, 2>>}, ratio |-> {<<100, 50>>}]}

\* C15: in a diff, for a (device, interface) present in both trees, a metric
\* of the destination that the source lacks has null as its whole entry, and
\* a metric both have has an object with a counter and a ratio field.
C15_AbsentMetricIsNull ==
    (view.op = "diff" /\ view.status = 200) =>
        \A p \in DOMAIN DiffResult.entries :
           \A mt \in DOMAIN DiffResult.entries[p] :
              IF <<p[1], p[2], mt>> \in DOMAIN DiffSource
              THEN /\ DiffResult.entries[p][mt] # {}
                   /\ \A e \in DiffResult.entries[p][mt] : DOMAIN e = {"counter", "ratio"}
              ELSE DiffResult.entries[p][mt] = {}

C15_Witness ==
    /\ view.op = "diff" /\ view.status = 200
    /\ \E p \in DOMAIN DiffResult.entries :
          \E mt, mu \in DOMAIN DiffResult.entries[p] :
             /\ <<p[1], p[2], mt>> \notin DOMAIN DiffSource
             /\ DiffResult.entries[p][mt] = {}
             /\ <<p[1], p[2], mu>> \in DOMAIN DiffSource
             /\ DiffResult.entries[p][mu] # {}

\* a request parameter restricts the walk when it is given and not empty
Restricts(target, empty) == target # {} /\ target # {empty}

\* the (device, interface) pairs both trees have and the filters admit
CommonPairs ==
    {p \in {<<t[1], t[2]>> : t \in DOMAIN DiffDest} :
        /\ \E t \in DOMAIN DiffSource : t[1] = p[1] /\ t[2] = p[2]
        /\ Restricts(view.node, "") => view.node = {p[1]}
        /\ Restricts(view.iface, <<>>) => view.iface = {p[2]}}

\* C18: the scaled diff has exactly the devices and interfaces that both
\* trees have and that equal the node and the interface filter when given,
\* with exactly the destination's metrics for each; nothing outside the
\* filter or missing on one side appears, and no device has an empty
\* interface map.
C18_DiffKeys ==
    (view.op = "diff" /\ view.status = 200) =>
        /\ DOMAIN DiffResult.entries = CommonPairs
        /\ DiffResult.devices = {p[1] : p \in CommonPairs}
        /\ \A p \in CommonPairs :
              DOMAIN DiffResult.entries[p] =
                 {t[3] : t \in {u \in DOMAIN DiffDest : u[1] = p[1] /\ u[2] = p[2]}}
        /\ \A d \in DiffResult.devices : \E p \in DOMAIN DiffResult.entries : p[1] = d

C18_Witness ==
    /\ view.op = "diff" /\ view.status = 200
    /\ view.node = {"leaf1"} /\ view.iface = {Eth1}
    /\ DOMAIN DiffDest = DiffLeaves
    /\ {<<t[1], t[2]>> : t \in DOMAIN DiffSource} = {<<"leaf1", Eth1>>, <<"leaf2", Eth1>>}
    /\ DOMAIN DiffResult.entries = {<<"leaf1", Eth1>>}
    /\ DiffResult.devices = {"leaf1"}

\* C16: a diff request whose source and destination snapshot were both
\* captured by an end request answered 200 is answered 200 when the traffic
\* scale is available (and positive), also when a stored tree is empty; it
\* is answered 404 only when a snapshot was never stored.
C16_DiffOfCapturedSucceeds ==
    (view.op = "diff") =>
        /\ (/\ view.captured /\ view.usecase.ok
            /\ \E v \in view.usecase.scale : v > 0) => view.status = 200
        /\ (view.status = 404) => (view.sourceStored = {} \/ view.destStored = {})

\* C17: a diff against the baseline snapshot "original_asis" is unscaled:
\* every metric both trees have has counter = sample - baseline, whatever the
\* traffic scale, and ratio = sample / baseline, or null at baseline 0.
C17_UnscaledAgainstBaseline ==
    (view.op = "diff" /\ view.source = "original_asis" /\ view.status = 200) =>
        \A p \in DOMAIN DiffResult.entries :
           \A mt \in DOMAIN DiffResult.entries[p] :
              LET leaf == <<p[1], p[2], mt>>
              IN (leaf \in DOMAIN DiffSource) =>
                    \E e \in DiffResult.entries[p][mt] :
                       /\ \E c \in e.counter :
                             IsQuotient(c, DiffDest[leaf] - DiffSource[leaf], 1)
                       /\ IF DiffSource[leaf] = 0 THEN e.ratio = {}
                          ELSE \E r \in e.ratio :
                                  IsQuotient(r, DiffDest[leaf], DiffSource[leaf])

\* C19: the duration end - begin a capture computes from the markers it
\* reads is never negative, in every interleaving of sampling requests under
\* a non-decreasing clock.
C19_DurationNeverNegative ==
    \A p \in Procs : \A d \in loc[p].duration : d >= 0

\* C20: a read request (GET state, GET diff), whatever its status, leaves
\* every marker and every statistics tree as it was, and no request removes
\* a marker that was recorded.
C20_ReadsChangeNothing ==
    [][/\ (view' # view) => (ts' = ts /\ st' = st)
       /\ \A path \in DOMAIN ts : (ts[path] # {}) => (ts'[path] # {})]_vars

C20_Witness ==
    /\ view.op = "diff" /\ view.status = 500
    /\ \E k \in Keys :
          /\ ts[BeginPath(k)] # {} /\ ts[EndPath(k)] # {}
          /\ st[StatsPath(k)] # {} /\ st[StatsPath(k)] = view.sourceStored

====
